---- MODULE Spec2Model ----
(***************************************************************************)
(* A model of airpollutant.py: one sampling session of the PM2.5 script.   *)
(*                                                                         *)
(* The session is the sequential control flow of __main__ and main(); the  *)
(* only concurrency is inside get_data_for_stations, where a thread pool   *)
(* runs one get_air_data call per station id while the calling thread      *)
(* consumes the futures in completion order.                               *)
(*                                                                         *)
(* Numbers: PM2.5 values are carried in tenths (12.5 is 125), printed      *)
(* averages in hundredths (13.75 is 1375), sleep lengths in milliseconds.  *)
(***************************************************************************)
EXTENDS Integers, Sequences, FiniteSets

(***************************************************************************)
(* Bounds of the model.                                                    *)
(***************************************************************************)
\* station ids the map/bounds endpoint may report are 1..MaxStations
MaxStations == 2
\* sampling_period and sampling_rate range over -MaxCfg..MaxCfg
MaxCfg == 2
\* sessions explored issue at most MaxFetches station fetches if run to the end
MaxFetches == 4
\* the thread pool has 1..MaxWorkers worker threads
MaxWorkers == 2
\* longest value list handed to print_overall_average_value on its own
MaxLen == 2

StationIds == 1..MaxStations
Names == {"A", "B"}
\* numeric PM2.5 readings, in tenths
Readings == {125, 150}
CfgRange == (0 - MaxCfg)..MaxCfg
\* <<latitude_1, longitude_1, latitude_2, longitude_2>> command lines
Boxes == {<<40, -75, 41, -74>>, <<91, 0, 0, 0>>, <<0, 0, 0, -181>>}

(***************************************************************************)
(* Values of the JSON field data.iaqi.pm25.v: a number, or anything else   *)
(* JSON can carry there (a string such as "-", null).                      *)
(***************************************************************************)
Num(x) == [numeric |-> TRUE, v |-> x]
NonNumeric == [numeric |-> FALSE, v |-> 0]
PmValues == {Num(x) : x \in Readings} \cup {NonNumeric}

(***************************************************************************)
(* What one get_air_data future can hold when it is done.                  *)
(*   measurement   (air_data, None), payload has iaqi.pm25.v and city.name *)
(*   error         (None, e): a requests exception was caught              *)
(*   no_pm25       (air_data, None), payload without data/iaqi/pm25        *)
(*   missing_field (air_data, None), pm25 present, city.name or v absent   *)
(*   raised        get_air_data raised an exception it does not catch      *)
(***************************************************************************)
Failure(k) == [kind |-> k, name |-> "", value |-> NonNumeric]
Measurement(n, x) == [kind |-> "measurement", name |-> n, value |-> x]
FailureKinds == {"error", "no_pm25", "missing_field", "raised"}
FetchResults ==
    {Measurement(n, x) : n \in Names, x \in PmValues}
        \cup {Failure(k) : k \in FailureKinds}
NoResult == Failure("pending")

VARIABLES
    box, sampling_period, sampling_rate,  \* parsed command line
    max_workers,                          \* size of the ThreadPoolExecutor
    pc,                                   \* position of the main thread
    caught,                               \* exception caught by __main__
    error,                                \* main's local, line 102
    station_ids, total_samples, i,        \* locals of main
    data_list,                            \* main's per-station series
    tasks, station_data,                  \* futures and data_list of the round
    error_prints,                         \* per id: error lines printed
    report,                               \* lines of the final averages
    resolver_calls, collector_calls,      \* calls made so far
    pauses,                               \* time.sleep arguments so far
    fetches,                              \* per id: get_air_data calls
    unusable,                             \* per id: fetches without a usable
                                          \*   (named, numeric) measurement
    samples                               \* entries returned by the collector

vars == <<box, sampling_period, sampling_rate, max_workers, pc, caught,
          error, station_ids, total_samples, i, data_list, tasks, station_data,
          error_prints, report, resolver_calls, collector_calls, pauses,
          fetches, unusable, samples>>

(***************************************************************************)
(* validate_coordinates: TRUE when it returns, FALSE when it raises        *)
(* ValueError.                                                             *)
(***************************************************************************)
validate_coordinates(b) ==
    /\ -90 <= b[1] /\ b[1] <= 90
    /\ -180 <= b[2] /\ b[2] <= 180
    /\ -90 <= b[3] /\ b[3] <= 90
    /\ -180 <= b[4] /\ b[4] <= 180

(***************************************************************************)
(* get_station_ids: what the call can hand to main.                        *)
(*   returned  (ids, None) or (None, error)                                *)
(*   raised    an exception outside the except tuple, such as the KeyError *)
(*             of a station without 'uid', the TypeError of a 'data' field *)
(*             that is no list of objects, or the ValueError older         *)
(*             releases of requests raise for a body that is not JSON      *)
(***************************************************************************)
\* the uid lists a successful call returns: distinct ids, here in
\* increasing order (the code never compares ids)
IdLists ==
    UNION {{s \in [1..n -> StationIds] :
                \A j, k \in 1..n : j < k => s[j] < s[k]} : n \in 0..MaxStations}
ResolveErrors == {"No station data found", "RequestException"}
ResolveRaises == {"ValueError", "KeyError"}

\* line 103, `if error:`; None is the only falsy error get_station_ids returns
ErrorIsTruthy(e) == e # "None"

\* lines 103-109: where main goes after get_station_ids has returned
AfterResolveMutant(e) == "loop"
AfterResolve(e) == IF ErrorIsTruthy(e) THEN "Aborted" ELSE "loop"

\* the except clauses of __main__, lines 157-160
Handler(exception) ==
    IF exception = "ValueError" THEN "InputError" ELSE "Unexpected"

(***************************************************************************)
(* get_data_for_stations, the body of the as_completed loop (lines 53-64). *)
(***************************************************************************)
\* line 57: the payload has data.iaqi.pm25
HasPm25Mutant(r) == r.kind # "raised"
HasPm25(r) == r.kind \in {"measurement", "missing_field"}

\* line 51: the station id of the n-th submit of the dict comprehension
SubmittedIdMutant(ids, n) == ids[1]
SubmittedId(ids, n) == ids[n]

\* lines 54-64: TRUE when the future's result ends up appended (line 60)
IsAppended(r) ==
    /\ r.kind # "raised"              \* line 55, future.result() re-raises
    /\ HasPm25(r)                     \* line 57
    /\ r.kind # "missing_field"       \* lines 58-59 raise KeyError

\* lines 54-64: the round's data_list after one future has been handled
CollectOne(sd, r) ==
    IF IsAppended(r)
    THEN Append(sd, [station_name |-> r.name, pm25 |-> r.value])
    ELSE sd

\* lines 52 and 65: as_completed is exhausted and the with block can exit
\* once every submitted future has been yielded
CanReturnMutant(ts) == \E k \in DOMAIN ts : ts[k].state = "collected"
CanReturn(ts) == \A k \in DOMAIN ts : ts[k].state = "collected"

(***************************************************************************)
(* main, the merge of one round into data_list (lines 114-130).            *)
(***************************************************************************)
Entry(n, vals) == [station_name |-> n, pm25_values |-> vals, is_none |-> FALSE]
\* an entry whose pm25_values is None; main never builds one
NoneEntry(n) == [station_name |-> n, pm25_values |-> <<>>, is_none |-> TRUE]

\* lines 118-124: index of the first entry with that name, 0 for None
FindEntryMutant(dl, n) == 0
FindEntry(dl, n) ==
    IF \E k \in DOMAIN dl : dl[k].station_name = n
    THEN CHOOSE k \in DOMAIN dl :
             /\ dl[k].station_name = n
             /\ \A j \in DOMAIN dl : dl[j].station_name = n => k <= j
    ELSE 0

\* lines 116-130
MergeOneEmptyMutant(dl, data) ==
    LET k == FindEntry(dl, data.station_name)
    IN  IF k # 0
        THEN [dl EXCEPT ![k].pm25_values = Append(@, data.pm25)]
        ELSE Append(dl, Entry(data.station_name, <<>>))
MergeOneMutant(dl, data) ==
    LET k == FindEntry(dl, data.station_name)
    IN  IF k # 0
        THEN [dl EXCEPT ![k].pm25_values = <<data.pm25>> \o @]
        ELSE Append(dl, Entry(data.station_name, <<data.pm25>>))
MergeOne(dl, data) ==
    LET k == FindEntry(dl, data.station_name)
    IN  IF k # 0
        THEN [dl EXCEPT ![k].pm25_values = Append(@, data.pm25)]
        ELSE Append(dl, Entry(data.station_name, <<data.pm25>>))

\* lines 114-130, the whole for loop over station_data
MergeRoundMutant(dl, sd) == dl
RECURSIVE MergeRound(_, _)
MergeRound(dl, sd) ==
    IF sd = <<>> THEN dl ELSE MergeRound(MergeOne(dl, Head(sd)), Tail(sd))

(***************************************************************************)
(* main, the for loop over range(total_samples) (line 111).                *)
(***************************************************************************)
LoopContinuesOnceMore(idx, total) == idx <= total
LoopContinuesOneLess(idx, total) == idx < total - 1
LoopContinues(idx, total) == idx < total

(***************************************************************************)
(* main, pacing (lines 131-132).                                           *)
(***************************************************************************)
ShouldSleepMutant(idx, total) == idx < total
ShouldSleep(idx, total) == idx < total - 1

\* 60 / sampling_rate in milliseconds; Python's true division, with the sign
\* of the quotient.  The caller never passes 0 (total_samples is 0 then).
SleepLength(rate) ==
    IF rate > 0 THEN 60000 \div rate ELSE 0 - (60000 \div (0 - rate))

(***************************************************************************)
(* print_overall_average_value (lines 89-97).                              *)
(***************************************************************************)
RECURSIVE SumTenths(_)
SumTenths(vals) ==
    IF vals = <<>> THEN 0 ELSE Head(vals).v + SumTenths(Tail(vals))

AllNumeric(vals) == \A k \in DOMAIN vals : vals[k].numeric

\* f"{average:.2f}" of sum / len, in hundredths; sum is in tenths and not
\* negative, n > 0
Format2f(sum, n) == (20 * sum + n) \div (2 * n)

\* lines 92-97 for one item: the line printed, or the exception raised
Line(item, k, x) == [station_name |-> item.station_name, kind |-> k, average |-> x]
AverageOf(item) ==
    IF ~item.is_none                                      \* line 92
    THEN IF ~AllNumeric(item.pm25_values)
         THEN Line(item, "TypeError", 0)                  \* sum() raises
         ELSE IF Len(item.pm25_values) = 0
         THEN Line(item, "ZeroDivisionError", 0)          \* line 94
         ELSE Line(item, "average",
                   Format2f(SumTenths(item.pm25_values), Len(item.pm25_values)))
    ELSE Line(item, "no_data", 0)                         \* line 97

Raises(line) == line.kind \in {"TypeError", "ZeroDivisionError"}

\* lines 91-97: the lines printed, up to and including the item that raises
RECURSIVE PrintAverages(_)
PrintAverages(dl) ==
    IF dl = <<>> THEN <<>>
    ELSE LET line == AverageOf(Head(dl))
         IN  IF Raises(line) THEN <<line>>
             ELSE <<line>> \o PrintAverages(Tail(dl))

\* the exception print_overall_average_value ends with, "None" if it returns
RaisedBy(lines) ==
    IF lines # <<>> /\ Raises(lines[Len(lines)])
    THEN lines[Len(lines)].kind ELSE "None"

(***************************************************************************)
(* The session.                                                            *)
(***************************************************************************)
Zero == [id \in StationIds |-> 0]

\* what is the same before any session and before a lone call of
\* print_overall_average_value
Blank ==
    /\ caught = "None"
    /\ error = "unset"
    /\ station_ids = <<>>
    /\ total_samples = 0
    /\ i = 0
    /\ tasks = <<>>
    /\ station_data = <<>>
    /\ error_prints = Zero
    /\ report = <<>>
    /\ resolver_calls = 0
    /\ collector_calls = 0
    /\ pauses = <<>>
    /\ fetches = Zero
    /\ unusable = Zero
    /\ samples = <<>>

\* the command line is parsed (lines 141-150); nothing has run yet
Init ==
    /\ box \in Boxes
    /\ sampling_period \in CfgRange
    /\ sampling_rate \in CfgRange
    /\ max_workers \in 1..MaxWorkers
    /\ pc = "start"
    /\ data_list = <<>>
    /\ Blank

\* lines 152-154 and 157-158
Validate ==
    /\ pc = "start"
    /\ IF validate_coordinates(box)
       THEN pc' = "resolve" /\ UNCHANGED caught
       ELSE caught' = "ValueError" /\ pc' = Handler("ValueError")
    /\ UNCHANGED <<box, sampling_period, sampling_rate, max_workers, error,
                   station_ids, total_samples, i, data_list, tasks,
                   station_data, error_prints, report, resolver_calls,
                   collector_calls, pauses, fetches, unusable, samples>>

\* the rounds a session with that command line runs if nothing stops it
Rounds(period, rate) == IF period * rate > 0 THEN period * rate ELSE 0

\* lines 102-109, get_station_ids returns (lines 13-29)
ResolveReturns ==
    /\ pc = "resolve"
    /\ resolver_calls' = resolver_calls + 1
    /\ \E ids \in IdLists, e \in ResolveErrors \cup {"None"} :
          /\ e # "None" => ids = <<>>
          /\ Len(ids) * Rounds(sampling_period, sampling_rate) <= MaxFetches
          /\ error' = e
          /\ pc' = AfterResolve(e)
          /\ station_ids' = ids
          /\ IF pc' = "loop"
             THEN /\ total_samples' = sampling_period * sampling_rate  \* 108
                  /\ data_list' = <<>>                                 \* 109
                  /\ i' = 0
             ELSE UNCHANGED <<total_samples, data_list, i>>
    /\ UNCHANGED <<box, sampling_period, sampling_rate, max_workers, caught,
                   tasks, station_data, error_prints, report,
                   collector_calls, pauses, fetches, unusable, samples>>

\* line 102, get_station_ids raises; lines 157-160 catch it
ResolveRaisesException ==
    /\ pc = "resolve"
    /\ resolver_calls' = resolver_calls + 1
    /\ \E e \in ResolveRaises :
          /\ caught' = e
          /\ pc' = Handler(e)
    /\ UNCHANGED <<box, sampling_period, sampling_rate, max_workers, error,
                   station_ids, total_samples, i, data_list, tasks,
                   station_data, error_prints, report, collector_calls,
                   pauses, fetches, unusable, samples>>

\* lines 111-112 and 49-50: the next round enters get_data_for_stations
StartRound ==
    /\ pc = "loop"
    /\ LoopContinues(i, total_samples)
    /\ collector_calls' = collector_calls + 1
    /\ tasks' = <<>>
    /\ station_data' = <<>>
    /\ pc' = IF station_ids = <<>> THEN "as_completed" ELSE "submit"
    /\ UNCHANGED <<box, sampling_period, sampling_rate, max_workers, caught,
                   error, station_ids, total_samples, i, data_list,
                   error_prints, report, resolver_calls, pauses, fetches,
                   unusable, samples>>

\* line 51, one executor.submit of the dict comprehension
Submit ==
    /\ pc = "submit"
    /\ Len(tasks) < Len(station_ids)
    /\ tasks' = Append(tasks, [id |-> SubmittedId(station_ids, Len(tasks) + 1),
                               state |-> "queued", result |-> NoResult])
    /\ pc' = IF Len(tasks') = Len(station_ids) THEN "as_completed" ELSE "submit"
    /\ UNCHANGED <<box, sampling_period, sampling_rate, max_workers, caught,
                   error, station_ids, total_samples, i, data_list,
                   station_data, error_prints, report, resolver_calls,
                   collector_calls, pauses, fetches, unusable, samples>>

Running == {k \in DOMAIN tasks : tasks[k].state = "running"}

\* a pool thread takes the oldest queued work item and calls get_air_data
\* (line 33), which sends the request (line 36)
WorkerStart ==
    /\ \E k \in DOMAIN tasks :
          /\ tasks[k].state = "queued"
          /\ \A j \in 1..(k - 1) : tasks[j].state # "queued"
          /\ Cardinality(Running) < max_workers
          /\ tasks' = [tasks EXCEPT ![k].state = "running"]
          /\ fetches' = [fetches EXCEPT ![tasks[k].id] = @ + 1]
    /\ UNCHANGED <<box, sampling_period, sampling_rate, max_workers, pc,
                   caught, error, station_ids, total_samples, i, data_list,
                   station_data, error_prints, report, resolver_calls,
                   collector_calls, pauses, unusable, samples>>

\* the response carries a station name and a number for PM2.5
Usable(r) == r.kind = "measurement" /\ r.value.numeric

\* a worker that appends its measurement to the round's list itself
WorkerFinishMutant ==
    /\ \E k \in DOMAIN tasks, r \in FetchResults :
          /\ tasks[k].state = "running"
          /\ tasks' = [tasks EXCEPT ![k].state = "finished", ![k].result = r]
          /\ station_data' = CollectOne(station_data, r)
          /\ unusable' = [unusable EXCEPT
                             ![tasks[k].id] = IF Usable(r) THEN @ ELSE @ + 1]
    /\ UNCHANGED <<box, sampling_period, sampling_rate, max_workers, pc,
                   caught, error, station_ids, total_samples, i, data_list,
                   error_prints, report, resolver_calls, collector_calls,
                   pauses, fetches, samples>>

\* get_air_data returns or raises (lines 35-44); its future is done
WorkerFinish ==
    /\ \E k \in DOMAIN tasks, r \in FetchResults :
          /\ tasks[k].state = "running"
          /\ tasks' = [tasks EXCEPT ![k].state = "finished", ![k].result = r]
          /\ unusable' = [unusable EXCEPT
                             ![tasks[k].id] = IF Usable(r) THEN @ ELSE @ + 1]
    /\ UNCHANGED <<box, sampling_period, sampling_rate, max_workers, pc,
                   caught, error, station_ids, total_samples, i, data_list,
                   station_data, error_prints, report, resolver_calls,
                   collector_calls, pauses, fetches, samples>>

\* lines 52-64, one iteration: as_completed yields a done future
Collect ==
    /\ pc = "as_completed"
    /\ \E k \in DOMAIN tasks :
          /\ tasks[k].state = "finished"
          /\ station_data' = CollectOne(station_data, tasks[k].result)
          /\ error_prints' =
                 [error_prints EXCEPT
                     ![tasks[k].id] =
                         IF IsAppended(tasks[k].result) THEN @ ELSE @ + 1]
          /\ tasks' = [tasks EXCEPT ![k].state = "collected"]
    /\ UNCHANGED <<box, sampling_period, sampling_rate, max_workers, pc,
                   caught, error, station_ids, total_samples, i, data_list,
                   report, resolver_calls, collector_calls, pauses, fetches,
                   unusable, samples>>

\* lines 52 and 65: the loop ends, the with block exits, data_list is returned
ReturnData ==
    /\ pc = "as_completed"
    /\ CanReturn(tasks)
    /\ samples' = samples \o station_data
    /\ pc' = "merge"
    /\ UNCHANGED <<box, sampling_period, sampling_rate, max_workers, caught,
                   error, station_ids, total_samples, i, data_list, tasks,
                   station_data, error_prints, report, resolver_calls,
                   collector_calls, pauses, fetches, unusable>>

\* lines 114-130
Merge ==
    /\ pc = "merge"
    /\ data_list' = MergeRound(data_list, station_data)
    /\ pc' = "pace"
    /\ UNCHANGED <<box, sampling_period, sampling_rate, max_workers, caught,
                   error, station_ids, total_samples, i, tasks, station_data,
                   error_prints, report, resolver_calls, collector_calls,
                   pauses, fetches, unusable, samples>>

\* a pause that asks get_station_ids again
PaceMutant ==
    /\ pc = "pace"
    /\ ShouldSleep(i, total_samples)
    /\ SleepLength(sampling_rate) >= 0
    /\ pauses' = Append(pauses, SleepLength(sampling_rate))
    /\ i' = i + 1
    /\ pc' = "loop"
    /\ resolver_calls' = resolver_calls + 1
    /\ station_ids' \in {ids \in IdLists : Len(ids) <= Len(station_ids)}
    /\ UNCHANGED <<box, sampling_period, sampling_rate, max_workers, caught,
                   error, total_samples, data_list, tasks, station_data,
                   error_prints, report, collector_calls, fetches, unusable,
                   samples>>

\* lines 131-132 and the step of the for loop; time.sleep raises ValueError
\* for a negative length, which lines 157-158 catch
Pace ==
    /\ pc = "pace"
    /\ IF ShouldSleep(i, total_samples)
       THEN IF SleepLength(sampling_rate) < 0
            THEN /\ caught' = "ValueError"
                 /\ pc' = Handler("ValueError")
                 /\ UNCHANGED <<i, pauses>>
            ELSE /\ pauses' = Append(pauses, SleepLength(sampling_rate))
                 /\ i' = i + 1
                 /\ pc' = "loop"
                 /\ UNCHANGED caught
       ELSE /\ i' = i + 1
            /\ pc' = "loop"
            /\ UNCHANGED <<caught, pauses>>
    /\ UNCHANGED <<box, sampling_period, sampling_rate, max_workers, error,
                   station_ids, total_samples, data_list, tasks, station_data,
                   error_prints, report, resolver_calls, collector_calls,
                   fetches, unusable, samples>>

\* lines 111 and 134-136: the loop is over, the series and the averages are
\* printed; an exception of the average leaves through lines 159-160
PrintResults ==
    /\ pc = "loop"
    /\ ~LoopContinues(i, total_samples)
    /\ report' = PrintAverages(data_list)
    /\ IF RaisedBy(report') # "None"
       THEN caught' = RaisedBy(report') /\ pc' = Handler(RaisedBy(report'))
       ELSE pc' = "Completed" /\ UNCHANGED caught
    /\ UNCHANGED <<box, sampling_period, sampling_rate, max_workers, error,
                   station_ids, total_samples, i, data_list, tasks,
                   station_data, error_prints, resolver_calls,
                   collector_calls, pauses, fetches, unusable, samples>>

Next ==
    \/ Validate
    \/ ResolveReturns
    \/ ResolveRaisesException
    \/ StartRound
    \/ Submit
    \/ WorkerStart
    \/ WorkerFinish
    \/ Collect
    \/ ReturnData
    \/ Merge
    \/ Pace
    \/ PrintResults

Spec == Init /\ [][Next]_vars

(***************************************************************************)
(* print_overall_average_value on its own: called once with any list of    *)
(* entries.                                                                *)
(***************************************************************************)
ValueLists == UNION {[1..n -> PmValues] : n \in 0..MaxLen}
Entries ==
    {Entry(n, vals) : n \in Names, vals \in ValueLists}
        \cup {NoneEntry(n) : n \in Names}
AverageInputs == UNION {[1..n -> Entries] : n \in 1..2}

InitAverage ==
    /\ box = <<0, 0, 0, 0>>
    /\ sampling_period = 0
    /\ sampling_rate = 0
    /\ max_workers = 1
    /\ pc = "average_call"
    /\ data_list \in AverageInputs
    /\ Blank

CallAverage ==
    /\ pc = "average_call"
    /\ report' = PrintAverages(data_list)
    /\ caught' = RaisedBy(report')
    /\ pc' = IF caught' # "None" THEN "average_raised" ELSE "average_returned"
    /\ UNCHANGED <<box, sampling_period, sampling_rate, max_workers, error,
                   station_ids, total_samples, i, data_list, tasks,
                   station_data, error_prints, resolver_calls,
                   collector_calls, pauses, fetches, unusable, samples>>

NextAverage == CallAverage

SpecAverage == InitAverage /\ [][NextAverage]_vars

(***************************************************************************)
(* Vocabulary of the properties.                                           *)
(***************************************************************************)
Range(f) == {f[k] : k \in DOMAIN f}

\* the number of indexes of seq that satisfy Test
Count(seq, Test(_)) == Cardinality({k \in DOMAIN seq : Test(seq[k])})

RECURSIVE SumOver(_, _)
SumOver(f, S) ==
    IF S = {} THEN 0
    ELSE LET x == CHOOSE y \in S : TRUE IN f[x] + SumOver(f, S \ {x})

\* the main thread is inside get_data_for_stations
InCollector == pc \in {"submit", "as_completed"}
\* main has ended, whichever way
Terminal == pc \in {"Completed", "Aborted", "InputError", "Unexpected"}
\* get_station_ids was called and did not hand back a list of ids
ResolverFailed == resolver_calls > 0 /\ error # "None"

\* the values stored under name n, in stored order
Series(dl, n) ==
    IF FindEntry(dl, n) = 0 THEN <<>> ELSE dl[FindEntry(dl, n)].pm25_values

\* the values the collector has returned under name n, in return order
ReturnedUnder(log, n) ==
    LET IsN(e) == e.station_name = n
        sel == SelectSeq(log, IsN)
    IN  [k \in 1..Len(sel) |-> sel[k].pm25]

RECURSIVE TotalStored(_)
TotalStored(dl) ==
    IF dl = <<>> THEN 0 ELSE Len(Head(dl).pm25_values) + TotalStored(Tail(dl))

C2_RoundsAndPauses ==
    (sampling_period > 0 /\ sampling_rate > 0 /\ error = "None") =>
        /\ collector_calls <= sampling_period * sampling_rate
        /\ Len(pauses) =
               IF collector_calls = 0 THEN 0
               ELSE IF pc = "loop" /\ i < total_samples
                    THEN collector_calls
                    ELSE collector_calls - 1
        /\ \A k \in DOMAIN pauses :
              /\ pauses[k] * sampling_rate <= 60000
              /\ 60000 < (pauses[k] + 1) * sampling_rate
        /\ Terminal =>
              /\ collector_calls = sampling_period * sampling_rate
              /\ Len(pauses) = sampling_period * sampling_rate - 1

\* period 1, rate 2: two rounds, one pause of 30 seconds
C2_Witness ==
    /\ pc = "Completed"
    /\ sampling_period = 1
    /\ sampling_rate = 2
    /\ collector_calls = 2
    /\ pauses = <<30000>>

(***************************************************************************)
(* C3.  When get_station_ids fails, by returning an error or by raising,   *)
(* the session has ended with the error reported: no round was started, no *)
(* station was fetched, no sleep was made, no series or average exists.    *)
(***************************************************************************)
C3_ResolverFailureAborts ==
    ResolverFailed =>
        /\ Terminal /\ pc # "Completed"
        /\ pc = "Aborted" \/ caught # "None"
        /\ collector_calls = 0
        /\ fetches = Zero
        /\ tasks = <<>>
        /\ pauses = <<>>
        /\ data_list = <<>>
        /\ report = <<>>

\* the resolver failed in a session that had rounds to run
C3_Witness ==
    /\ pc = "Aborted"
    /\ error = "RequestException"
    /\ sampling_period * sampling_rate = 2

(***************************************************************************)
(* C4.  Between rounds, the series of every station name is exactly the    *)
(* sequence of values the rounds so far returned under that name, in       *)
(* round order; a failed fetch adds nothing, every round is merged once:   *)
(* the number of stored values is the number of fetches that returned an   *)
(* entry.                                                                  *)
(***************************************************************************)
C4_SeriesAreReturnedValues ==
    (pc \in {"pace", "loop"} \/ (Terminal /\ error = "None")) =>
        /\ \A n \in Names : Series(data_list, n) = ReturnedUnder(samples, n)
        /\ TotalStored(data_list) = Len(samples)
        /\ TotalStored(data_list) =
               SumOver(fetches, StationIds) - SumOver(error_prints, StationIds)

\* station 1 reports A: 12.5 then 15.0; station 2 fails, then reports B
C4_Witness ==
    /\ pc = "Completed"
    /\ data_list = <<Entry("A", <<Num(125), Num(150)>>),
                     Entry("B", <<Num(125)>>)>>
    /\ fetches = [id \in StationIds |-> IF id \in {1, 2} THEN 2 ELSE 0]
    /\ error_prints = [id \in StationIds |-> IF id = 2 THEN 1 ELSE 0]

(***************************************************************************)
(* C5.  As claimed: every failed fetch is recorded.  Once a round has been *)
(* collected, the failures recorded for a station id (the script's only    *)
(* record is the error line it prints) number the rounds in which the      *)
(* fetch of that id gave no usable measurement.                            *)
(***************************************************************************)
C5_FailuresAreRecorded ==
    (pc \in {"merge", "pace", "loop"} \/ Terminal) =>
        \A id \in StationIds : error_prints[id] = unusable[id]

(***************************************************************************)
(* C6.  As claimed: when the session has completed, every resolved station *)
(* whose fetch failed in every round has a "No data available" line in     *)
(* the printed averages.                                                   *)
(***************************************************************************)
FailedEveryRound ==
    {id \in Range(station_ids) :
        fetches[id] >= 1 /\ error_prints[id] = fetches[id]}
NoDataLines == {k \in DOMAIN report : report[k].kind = "no_data"}

C6_FailedStationsAreReported ==
    pc = "Completed" =>
        Cardinality(NoDataLines) >= Cardinality(FailedEveryRound)

(***************************************************************************)
(* C7.  As claimed: print_overall_average_value, given entries whose value *)
(* lists are empty or numeric, never raises; it answers "no data" for an   *)
(* empty list and the mean, sum over count, for any other.                 *)
(***************************************************************************)
C7_AverageOrNoData ==
    (/\ pc \in {"average_returned", "average_raised"}
     /\ \A k \in DOMAIN data_list :
           ~data_list[k].is_none /\ AllNumeric(data_list[k].pm25_values))
    =>
        /\ pc = "average_returned"
        /\ Len(report) = Len(data_list)
        /\ \A k \in DOMAIN data_list :
              LET vals == data_list[k].pm25_values
              IN  /\ report[k].station_name = data_list[k].station_name
                  /\ IF vals = <<>>
                     THEN report[k].kind = "no_data"
                     ELSE /\ report[k].kind = "average"
                          \* within half a hundredth of sum / count
                          /\ 2 * (report[k].average * Len(vals)
                                      - 10 * SumTenths(vals)) <= Len(vals)
                          /\ 2 * (10 * SumTenths(vals)
                                      - report[k].average * Len(vals)) <= Len(vals)

(***************************************************************************)
(* C8.  As claimed: a session with sampling rate 0 is rejected before any  *)
(* network call: get_station_ids is never called, no station is fetched,   *)
(* and main never reaches its loop.                                        *)
(***************************************************************************)
C8_ZeroRateIsRejected ==
    sampling_rate = 0 =>
        /\ resolver_calls = 0
        /\ fetches = Zero
        /\ pc \in {"start", "resolve", "InputError"}

(***************************************************************************)
(* C9.  As claimed: no configuration error mid-session.  Once the first    *)
(* round has been started, the session is never stopped by an error that   *)
(* the period or the rate causes (the ValueError of a negative sleep).     *)
(***************************************************************************)
C9_NoConfigErrorMidSession ==
    collector_calls >= 1 => caught # "ValueError"

(***************************************************************************)
(* C10.  A failed fetch does not abort the round or cost another station   *)
(* its result.  When get_data_for_stations returns, every call it          *)
(* submitted has finished and been handled, and every response with a      *)
(* station name and a pm25 value is in the returned list; an exception     *)
(* reaches __main__ only between rounds or after them.                     *)
(***************************************************************************)
C10_FailuresAreIsolated ==
    /\ pc = "merge" =>
          /\ Len(tasks) = Len(station_ids)
          /\ \A k \in DOMAIN tasks :
                /\ tasks[k].state = "collected"
                /\ tasks[k].result.kind = "measurement" =>
                      \E j \in DOMAIN station_data :
                          /\ station_data[j].station_name = tasks[k].result.name
                          /\ station_data[j].pm25 = tasks[k].result.value
    /\ InCollector => caught = "None"
    /\ (caught # "None" /\ collector_calls >= 1) =>
          \A k \in DOMAIN tasks : tasks[k].state = "collected"

\* one worker raised, the other station's measurement is returned
C10_Witness ==
    /\ pc = "merge"
    /\ Len(tasks) = 2
    /\ tasks[1].result.kind = "raised"
    /\ tasks[2].result = Measurement("B", Num(150))
    /\ station_data = <<[station_name |-> "B", pm25 |-> Num(150)]>>

(***************************************************************************)
(* C11.  Rounds are strictly serialized.  A fetch is submitted, running or *)
(* waiting to be handled only while main is inside get_data_for_stations,  *)
(* so none crosses a round boundary; and while a round is being fetched    *)
(* every entry the earlier rounds returned is already merged into          *)
(* data_list.  A station has never been fetched more often than rounds     *)
(* were started.                                                           *)
(***************************************************************************)
InFlight == {k \in DOMAIN tasks : tasks[k].state # "collected"}

C11_RoundsAreSerialized ==
    /\ InFlight # {} => InCollector
    /\ InCollector => TotalStored(data_list) = Len(samples)
    /\ \A id \in StationIds : fetches[id] <= collector_calls
    /\ Len(tasks) <= Len(station_ids)

\* a fetch of the second round is running; the first round is merged
C11_Witness ==
    /\ collector_calls = 2
    /\ \E k \in DOMAIN tasks : tasks[k].state = "running"
    /\ data_list # <<>>
    /\ TotalStored(data_list) = 2

(***************************************************************************)
(* C12.  As claimed: a fetch counts as a success, and its value reaches a  *)
(* series, only if the response has a station name and a numeric pm25      *)
(* value; any other response is a per-station failure, and neither the     *)
(* round nor the averages crash on it.                                     *)
(***************************************************************************)
C12_OnlyNumericValuesSucceed ==
    /\ \A k \in DOMAIN station_data :
          /\ station_data[k].station_name \in Names
          /\ station_data[k].pm25.numeric
    /\ \A k \in DOMAIN data_list : AllNumeric(data_list[k].pm25_values)
    /\ caught # "TypeError"

(***************************************************************************)
(* C13.  A session of zero rounds is valid.  When get_station_ids has      *)
(* succeeded and period * rate is 0, main is at its loop or has completed: *)
(* no collector call, no fetch, no sleep, no series, no error; and its     *)
(* only step from the loop is to Completed.                                *)
(***************************************************************************)
ZeroRounds == error = "None" /\ sampling_period * sampling_rate = 0

C13_ZeroRoundsCompletes ==
    /\ [](ZeroRounds =>
            /\ pc \in {"loop", "Completed"}
            /\ total_samples = 0
            /\ collector_calls = 0
            /\ fetches = Zero
            /\ tasks = <<>>
            /\ pauses = <<>>
            /\ data_list = <<>>
            /\ report = <<>>
            /\ caught = "None")
    /\ [][(ZeroRounds /\ pc = "loop") => pc' = "Completed"]_vars

\* stations were resolved, the rate was 0, the session completed
C13_Witness ==
    /\ pc = "Completed"
    /\ error = "None"
    /\ sampling_rate = 0
    /\ sampling_period = 1
    /\ Len(station_ids) = 2

(***************************************************************************)
(* Cancellation.  The script has no cancellation request of its own; the   *)
(* one a user can make is the interrupt signal, which raises               *)
(* KeyboardInterrupt in the main thread wherever it is.  Lines 157-160     *)
(* catch ValueError and Exception, neither of which covers it, so it       *)
(* leaves main at once (the with block of line 50 still waits for the      *)
(* workers) and the process ends with the uncaught exception.              *)
(***************************************************************************)
Interrupt ==
    /\ ~Terminal
    /\ pc # "Interrupted"
    /\ pc' = "Interrupted"
    /\ UNCHANGED <<box, sampling_period, sampling_rate, max_workers, caught,
                   error, station_ids, total_samples, i, data_list, tasks,
                   station_data, error_prints, report, resolver_calls,
                   collector_calls, pauses, fetches, unusable, samples>>

NextInterrupt == Next \/ Interrupt

SpecInterrupt == Init /\ [][NextInterrupt]_vars

(***************************************************************************)
(* C14.  As claimed: a cancellation request made while the session runs    *)
(* takes effect at the next round boundary.  When the session has ended on *)
(* the request, the round that was in flight has run to completion: every  *)
(* fetch it submitted was handled and everything it returned is merged.    *)
(***************************************************************************)
C14_CancelAtRoundBoundary ==
    pc = "Interrupted" =>
        /\ Len(tasks) = IF collector_calls = 0 THEN 0 ELSE Len(station_ids)
        /\ InFlight = {}
        /\ TotalStored(data_list) = Len(samples)

(***************************************************************************)
(* C15.  In every round get_air_data is called exactly once for each       *)
(* resolved station id, failed or not, whatever the pool size: outside the *)
(* collector every resolved id has been fetched once per round started,    *)
(* inside it at most once for the running round, an id that was not        *)
(* resolved never; a completed session has fetched each id total_rounds    *)
(* times.                                                                  *)
(***************************************************************************)
C15_OneFetchPerIdPerRound ==
    /\ \A id \in StationIds \ Range(station_ids) : fetches[id] = 0
    /\ \A j, k \in DOMAIN tasks : j # k => tasks[j].id # tasks[k].id
    /\ \A id \in Range(station_ids) :
          /\ fetches[id] <= collector_calls
          /\ fetches[id] >= collector_calls - 1
          /\ ~InCollector => fetches[id] = collector_calls
          /\ pc = "Completed" =>
                fetches[id] = Rounds(sampling_period, sampling_rate)

\* two rounds over two stations on a pool of one thread, with a failure
C15_Witness ==
    /\ pc = "Completed"
    /\ max_workers = 1
    /\ Len(station_ids) = 2
    /\ fetches = [id \in StationIds |-> IF id \in {1, 2} THEN 2 ELSE 0]
    /\ error_prints[1] = 1

(***************************************************************************)
(* C16.  get_station_ids is called once per session, before anything       *)
(* else: no round, fetch or sleep precedes the call, it is never called a  *)
(* second time, and after it the station id list never changes, so the     *)
(* futures of every round are those of the ids that one call returned.     *)
(***************************************************************************)
C16_ResolvedOnce ==
    /\ [](/\ resolver_calls <= 1
          /\ resolver_calls = 0 =>
                /\ collector_calls = 0
                /\ fetches = Zero
                /\ pauses = <<>>
                /\ station_ids = <<>>
          /\ collector_calls >= 1 => error = "None"
          /\ \A k \in DOMAIN tasks :
                k \in DOMAIN station_ids /\ tasks[k].id = station_ids[k])
    /\ [][resolver_calls = 1 =>
             /\ resolver_calls' = 1
             /\ station_ids' = station_ids]_vars

\* the second round, after a pause, fetches the list resolved at the start
C16_Witness ==
    /\ resolver_calls = 1
    /\ collector_calls = 2
    /\ Len(pauses) = 1
    /\ station_ids = <<1, 2>>
    /\ Len(tasks) = 2
    /\ \A k \in DOMAIN tasks : tasks[k].state = "running"

(***************************************************************************)
(* C17.  data_list holds at most one series per station name in every      *)
(* state, and between rounds exactly one for every name the collector has  *)
(* returned so far, whichever ids reported it; a series is never removed,  *)
(* renamed or shortened and its stored values never change.                *)
(***************************************************************************)
IsPrefix(s, t) == Len(s) <= Len(t) /\ \A k \in DOMAIN s : s[k] = t[k]

C17_OneAppendOnlySeriesPerName ==
    /\ [](/\ \A j, k \in DOMAIN data_list :
                j # k => data_list[j].station_name # data_list[k].station_name
          /\ (pc \in {"pace", "loop"} \/ (Terminal /\ error = "None")) =>
                \A n \in Names :
                    (\E k \in DOMAIN data_list : data_list[k].station_name = n)
                        <=> ReturnedUnder(samples, n) # <<>>)
    /\ [][\A k \in DOMAIN data_list :
             /\ k \in DOMAIN data_list'
             /\ data_list'[k].station_name = data_list[k].station_name
             /\ IsPrefix(data_list[k].pm25_values, data_list'[k].pm25_values)]_vars

\* stations 1 and 2 both report the name A in one round: one series
C17_Witness ==
    /\ pc = "pace"
    /\ collector_calls = 1
    /\ fetches = [id \in StationIds |-> IF id \in {1, 2} THEN 1 ELSE 0]
    /\ data_list = <<Entry("A", <<Num(125), Num(150)>>)>>

(***************************************************************************)
(* C18.  As claimed: what the session holds after merging a round does not *)
(* depend on the order in which the fetches completed, except for the      *)
(* order of the values that several ids add to one name.  After the first  *)
(* round data_list is then the merge of the measurements taken in          *)
(* submission order (a completion order that can happen), up to the order  *)
(* of the values inside each series.  Stated for rounds whose measurements *)
(* are all numeric.                                                        *)
(***************************************************************************)
\* how many times x occurs in seq
Occurrences(seq, x) == Cardinality({k \in DOMAIN seq : seq[k] = x})
SameBag(s, t) == \A x \in PmValues : Occurrences(s, x) = Occurrences(t, x)

\* the entries the round returns when the futures complete in the order
\* they were submitted
InSubmissionOrder ==
    LET Measured(t) == t.result.kind = "measurement"
        sel == SelectSeq(tasks, Measured)
    IN  [k \in 1..Len(sel) |->
            [station_name |-> sel[k].result.name, pm25 |-> sel[k].result.value]]

C18_StateIndependentOfCompletionOrder ==
    (/\ pc = "pace"
     /\ collector_calls = 1
     /\ \A k \in DOMAIN tasks :
           tasks[k].result.kind = "measurement" => Usable(tasks[k].result))
    =>
        LET canonical == MergeRound(<<>>, InSubmissionOrder)
        IN  /\ Len(data_list) = Len(canonical)
            /\ \A k \in DOMAIN data_list :
                  /\ k \in DOMAIN canonical
                  /\ data_list[k].station_name = canonical[k].station_name
                  /\ SameBag(data_list[k].pm25_values, canonical[k].pm25_values)

(***************************************************************************)
(* C18, amended.  No shared state has concurrent writers: a step changes   *)
(* at most one future; the round's list changes only by a step of the      *)
(* collecting thread; data_list changes only in main's merge, when no      *)
(* future of the round is outstanding.  The series the merge leaves under  *)
(* each name is the series before it followed by the round's values for    *)
(* that name, whose mutual order alone depends on the completion order;    *)
(* the position of a name's entry in data_list, hence the order of the     *)
(* printed lines, follows the completion order too.                        *)
(***************************************************************************)
\* the values the futures of the round hold for name n, in submission order
RoundValues(n) ==
    LET Named(e) == e.station_name = n
        sel == SelectSeq(InSubmissionOrder, Named)
    IN  [k \in 1..Len(sel) |-> sel[k].pm25]

C18_SingleWriterSeries ==
    /\ [][Len(tasks') >= Len(tasks) =>
             \A j, k \in DOMAIN tasks :
                 (tasks'[j] # tasks[j] /\ tasks'[k] # tasks[k]) => j = k]_vars
    /\ [][station_data' # station_data =>
             /\ pc \in {"loop", "as_completed"}
             /\ pc = "as_completed" => UNCHANGED data_list]_vars
    /\ [][data_list' # data_list =>
             /\ pc = "merge"
             /\ InFlight = {}
             /\ UNCHANGED <<tasks, station_data>>
             /\ \A n \in Names :
                   LET old == Series(data_list, n)
                       new == Series(data_list', n)
                   IN  /\ IsPrefix(old, new)
                       /\ Len(new) = Len(old) + Len(RoundValues(n))
                       /\ SameBag(SubSeq(new, Len(old) + 1, Len(new)),
                                  RoundValues(n))]_vars

\* station 2 (B) completed before station 1 (A): B's entry comes first
C18_Witness ==
    /\ pc = "pace"
    /\ collector_calls = 1
    /\ Len(tasks) = 2
    /\ tasks[1].result = Measurement("A", Num(125))
    /\ tasks[2].result = Measurement("B", Num(150))
    /\ data_list = <<Entry("B", <<Num(150)>>), Entry("A", <<Num(125)>>)>>

(***************************************************************************)
(* The session when every call that is pending eventually returns and      *)
(* every thread that can run eventually does.                              *)
(***************************************************************************)
SpecFair == Init /\ [][Next]_vars /\ WF_vars(Next)

(***************************************************************************)
(* C19.  With valid coordinates and a positive period and rate, the        *)
(* session eventually ends and stays ended: either get_station_ids failed, *)
(* or main has left its loop after period * rate rounds, all merged.       *)
(* Completed is reached only that way, and from an ended session no        *)
(* collector call and no fetch follows.                                    *)
(***************************************************************************)
ValidConfig ==
    validate_coordinates(box) /\ sampling_period > 0 /\ sampling_rate > 0

\* main has run all its rounds and merged them
AllRoundsMerged ==
    /\ error = "None"
    /\ collector_calls = Rounds(sampling_period, sampling_rate)
    /\ ~LoopContinues(i, total_samples)
    /\ InFlight = {}
    /\ TotalStored(data_list) = Len(samples)

C19_SessionTerminates ==
    /\ ValidConfig => <>[](Terminal /\ (ResolverFailed \/ AllRoundsMerged))
    /\ [](pc = "Completed" => AllRoundsMerged)
    /\ [][Terminal => UNCHANGED <<pc, collector_calls, fetches, tasks>>]_vars

\* two rounds over two stations ran and the session completed
C19_Witness ==
    /\ pc = "Completed"
    /\ ValidConfig
    /\ collector_calls = 2
    /\ fetches = [id \in StationIds |-> IF id \in {1, 2} THEN 2 ELSE 0]

(***************************************************************************)
(* C20.  Every entry of data_list holds at least one value and its         *)
(* pm25_values is never None, in every state of a session; so the average  *)
(* never divides by zero and the "No data available" line is never         *)
(* printed.                                                                *)
(***************************************************************************)
C20_NoEmptySeries ==
    /\ \A k \in DOMAIN data_list :
          /\ ~data_list[k].is_none
          /\ Len(data_list[k].pm25_values) >= 1
    /\ caught # "ZeroDivisionError"
    /\ \A k \in DOMAIN report :
          report[k].kind \notin {"ZeroDivisionError", "no_data"}

\* the averages of two series were printed
C20_Witness ==
    /\ pc = "Completed"
    /\ Len(data_list) = 2
    /\ Len(report) = 2
    /\ \A k \in DOMAIN report : report[k].kind = "average"

====
